---- MODULE Spec2Model ----
(***************************************************************************)
(* The task store of src/script.js (TaskModel, lines 4-131) as a state     *)
(* machine: the task array, the observer registry, the localStorage slot   *)
(* "tasks", the wall clock read by Date.now(), and the clients of the      *)
(* store's public API (callers, observer callbacks, consumers of the       *)
(* arrays the store hands out).  One action per public method; each action *)
(* is the whole method, its trailing saveTasks() and notifyObservers()     *)
(* included.  The page around the store (App, EventHandlers, TaskRenderer, *)
(* lines 250-571) is modelled by its state and one action per handler.     *)
(***************************************************************************)
EXTENDS Integers, Sequences, FiniteSets, TLC

\* ------------------------------------------------------------------ bounds
\* Most tasks held at once (addTask is not offered beyond it).
MaxTasks == 2
\* Last instant of the wall clock; Date.now() ranges over 0..MaxNow.
MaxNow == 1
\* Most callbacks registered with subscribe.
MaxObservers == 2
\* Most setTimeout callbacks of handleDeleteTask pending at once.
MaxTimers == 2

\* ------------------------------------------------------------------ inputs
\* Outcomes of Math.random().toString(36).substr(2, 9): nothing in the code
\* keeps two calls from drawing the same one.
Rand == {"r1", "r2"}

\* Date.now().toString() + <random part>, kept as a pair.
generateId(t, r) == <<t, r>>

\* Every id a caller can pass: those generateId can produce, whether or not
\* a task in the store currently carries them.
Ids == (0..MaxNow) \X Rand

\* new Date().toISOString(): a timestamp string, distinct from null and
\* from a missing property.
ISO(t) == [kind |-> "iso", t |-> t]
Null == [kind |-> "null", t |-> 0]
Undefined == [kind |-> "undefined", t |-> 0]

\* taskData as read from the form: text is a string (a sequence of
\* characters), dueDate and priority are "" when not supplied.
TaskInputs ==
    { [text |-> <<>>, dueDate |-> "", priority |-> ""],
      [text |-> <<" ", " ">>, dueDate |-> "2025-01-01", priority |-> "low"],
      [text |-> <<" ", "a", " ">>, dueDate |-> "", priority |-> ""] }

\* Arguments of getFilteredTasks; "bogus" is a value the switch does not know.
Filters == {"all", "pending", "completed", "bogus"}

\* What a callback passed to subscribe does when it is called.
Callbacks == {"returns", "throws"}

\* ------------------------------------------------------------------ state
VARIABLES
    tasks,      \* let tasks: the store's array of task objects
    observers,  \* let observers: the registered callbacks, in order
    storage,    \* localStorage's "tasks" slot
    now,        \* the wall clock, as Date.now() and new Date() read it
    result,     \* how the last call ended: what it returned or threw
    op,         \* the last call: its name, arguments and what it did
    received,   \* the array a client last received from the store
    setItemThrows, \* whether localStorage refuses writes in this session
                   \* (quota exceeded, storage disabled)
    started,       \* App.init() has run
    currentFilter, \* let currentFilter of EventHandlers
    dragged,       \* let draggedTaskId of EventHandlers
    taskList,      \* the .task-item elements of #taskList, in document order
    statsShown,    \* the text of #totalTasks, #completedTasks, #pendingTasks
    timers         \* the task ids of the pending setTimeout callbacks of
                   \* handleDeleteTask, in the order they were set

\* The state of the page around the store.
appVars ==
    <<started, currentFilter, dragged, taskList, statsShown, timers>>

vars ==
    <<tasks, observers, storage, now, result, op, received, setItemThrows,
      started, currentFilter, dragged, taskList, statsShown, timers>>

Return(v) == [kind |-> "return", val |-> v]
Throw(e) == [kind |-> "throw", val |-> e]

Absent == [kind |-> "absent"]
Corrupt == [kind |-> "corrupt"]

\* The array a client holds: `live` when it is the store's own array object,
\* otherwise a separate array whose elements are the store's task objects at
\* the positions idx.
Nothing == [live |-> FALSE, idx |-> <<>>]
LiveArray == [live |-> TRUE, idx |-> <<>>]
CopyOf(ix) == [live |-> FALSE, idx |-> ix]

\* ------------------------------------------------------------ pure helpers
RECURSIVE trimStart(_)
trimStart(s) ==
    IF s # <<>> /\ Head(s) = " " THEN trimStart(Tail(s)) ELSE s

RECURSIVE trimEnd(_)
trimEnd(s) ==
    IF s # <<>> /\ s[Len(s)] = " " THEN trimEnd(SubSeq(s, 1, Len(s) - 1)) ELSE s

\* A trim that strips nothing.
trimNothing(s) == s

\* String.prototype.trim
trim(s) == trimEnd(trimStart(s))

\* Some task of ts carries the id (noted in the call records of the methods
\* that take an id).
Present(ts, id) == \E k \in 1..Len(ts) : ts[k].id = id

\* Array.prototype.findIndex on the id: 0-based, -1 when no element matches.
RECURSIVE findIndexFrom(_, _, _)
findIndexFrom(ts, id, i) ==
    IF i > Len(ts) THEN -1
    ELSE IF ts[i].id = id THEN i - 1
    ELSE findIndexFrom(ts, id, i + 1)

findIndex(ts, id) == findIndexFrom(ts, id, 1)

\* Array.prototype.filter: the positions (1-based) of the elements kept,
\* from position i on; keep[k] is what the callback returns for element k.
RECURSIVE filterIdx(_, _)
filterIdx(keep, i) ==
    IF i > Len(keep) THEN <<>>
    ELSE (IF keep[i] THEN <<i>> ELSE <<>>) \o filterIdx(keep, i + 1)

\* A pending test that every task passes.
isPendingLax(ts) == [k \in 1..Len(ts) |-> TRUE]

\* The callback's result for every element of ts.
isCompleted(ts) == [k \in 1..Len(ts) |-> ts[k].completed]
isPending(ts) == [k \in 1..Len(ts) |-> ~ts[k].completed]
isAny(ts) == [k \in 1..Len(ts) |-> TRUE]

pick(ts, ix) == [k \in 1..Len(ix) |-> ts[ix[k]]]

\* Array.prototype.splice(start, 1): the array without the element at the
\* 0-based position start.
spliceOut(ts, start) ==
    SubSeq(ts, 1, start) \o SubSeq(ts, start + 2, Len(ts))

\* An insertion one position too far.
spliceInAfter(ts, start, x) ==
    LET at == IF start + 1 > Len(ts) THEN Len(ts) ELSE start + 1
    IN  SubSeq(ts, 1, at) \o <<x>> \o SubSeq(ts, at + 1, Len(ts))

\* Array.prototype.splice(start, 0, x): x inserted at the 0-based position
\* start, clamped to the array's length.
spliceIn(ts, start, x) ==
    LET at == IF start > Len(ts) THEN Len(ts) ELSE start
    IN  SubSeq(ts, 1, at) \o <<x>> \o SubSeq(ts, at + 1, Len(ts))

\* JSON.stringify of one task: a property whose value is undefined is left
\* out, null is written.
stringifyTask(t) ==
    IF t.completedAt = Undefined
    THEN [id |-> t.id, text |-> t.text, completed |-> t.completed,
          createdAt |-> t.createdAt, dueDate |-> t.dueDate,
          priority |-> t.priority]
    ELSE [id |-> t.id, text |-> t.text, completed |-> t.completed,
          createdAt |-> t.createdAt, dueDate |-> t.dueDate,
          priority |-> t.priority, completedAt |-> t.completedAt]

stringify(ts) == [k \in 1..Len(ts) |-> stringifyTask(ts[k])]

\* A parse that reads a missing completedAt as null.
parseTaskNulling(j) ==
    [id |-> j.id, text |-> j.text, completed |-> j.completed,
     createdAt |-> j.createdAt, dueDate |-> j.dueDate, priority |-> j.priority,
     completedAt |-> IF "completedAt" \in DOMAIN j THEN j.completedAt
                     ELSE Null]

\* JSON.parse of one task: reading a property the text does not hold gives
\* undefined.
parseTask(j) ==
    [id |-> j.id, text |-> j.text, completed |-> j.completed,
     createdAt |-> j.createdAt, dueDate |-> j.dueDate, priority |-> j.priority,
     completedAt |-> IF "completedAt" \in DOMAIN j THEN j.completedAt
                     ELSE Undefined]

parse(js) == [k \in 1..Len(js) |-> parseTask(js[k])]

\* ------------------------------------------------------- private methods
\* observers.forEach((callback) => callback(tasks)): the callbacks called,
\* by position, from position i on; a callback that throws ends the loop.
RECURSIVE forEach(_, _)
forEach(obs, i) ==
    IF i > Len(obs) THEN <<>>
    ELSE IF obs[i] = "throws" THEN <<i>>
    ELSE <<i>> \o forEach(obs, i + 1)

notifyObservers ==
    [invoked |-> forEach(observers, 1),
     threw |-> \E i \in 1..Len(observers) : observers[i] = "throws"]

\* saveTasks(): the slot after localStorage.setItem("tasks",
\* JSON.stringify(tasks)); when setItem throws the slot keeps its value and
\* the error is only logged.
saveTasks(ts) ==
    IF setItemThrows THEN storage
    ELSE [kind |-> "json", value |-> stringify(ts)]

saveOutcome == IF setItemThrows THEN "failed" ELSE "written"

\* The common tail of the mutating methods:
\*   this.saveTasks(); notifyObservers(); return ret;
SaveNotifyReturn(call, newTasks, ret) ==
    LET n == notifyObservers
    IN  /\ tasks' = newTasks
        /\ storage' = saveTasks(newTasks)
        /\ result' = IF n.threw THEN Throw("observer error") ELSE ret
        /\ op' = call @@ [saved |-> saveOutcome, invoked |-> n.invoked]
        /\ received' = IF n.invoked # <<>> THEN LiveArray ELSE Nothing
        /\ UNCHANGED <<observers, now, setItemThrows>>

\* A call that ends before any saveTasks() or notifyObservers().
NoEffect(call, ret) ==
    /\ result' = ret
    /\ op' = call @@ [saved |-> "none", invoked |-> <<>>]
    /\ UNCHANGED <<tasks, observers, storage, now, setItemThrows>>

\* ---------------------------------------------------------------- Init
Init ==
    /\ tasks = <<>>
    /\ observers = <<>>
    /\ storage \in {Absent, Corrupt}
    /\ now = 0
    /\ result = Return("undefined")
    /\ op = [name |-> "init", saved |-> "none", invoked |-> <<>>]
    /\ received = Nothing
    /\ setItemThrows \in BOOLEAN
    /\ started = FALSE
    /\ currentFilter = "all"
    /\ dragged = "null"
    /\ taskList = <<>>
    /\ statsShown = "unset"
    /\ timers = <<>>

\* ------------------------------------------------------------ public API
subscribe(callback) ==
    /\ Len(observers) < MaxObservers
    /\ observers' = Append(observers, callback)
    /\ result' = Return("undefined")
    /\ op' = [name |-> "subscribe", saved |-> "none", invoked |-> <<>>]
    /\ received' = Nothing
    /\ UNCHANGED <<tasks, storage, now, setItemThrows>>

getAllTasks ==
    /\ NoEffect([name |-> "getAllTasks"],
                [kind |-> "return", val |-> "array", items |-> tasks])
    /\ received' = CopyOf([k \in 1..Len(tasks) |-> k])

\* The switch of getFilteredTasks on an array ts.
filteredIdx(ts, filter) ==
    CASE filter = "completed" -> filterIdx(isCompleted(ts), 1)
      [] filter = "pending" -> filterIdx(isPending(ts), 1)
      [] OTHER -> filterIdx(isAny(ts), 1)

getFilteredTasksIdx(filter) == filteredIdx(tasks, filter)

getFilteredTasks(filter) ==
    LET ix == getFilteredTasksIdx(filter)
    IN  /\ NoEffect([name |-> "getFilteredTasks", filter |-> filter],
                    [kind |-> "return", val |-> "array",
                     items |-> pick(tasks, ix)])
        /\ received' = CopyOf(ix)

\* taskData.dueDate || null
dueDateOrNull(dueDate) == IF dueDate = "" THEN "null" ELSE dueDate

\* taskData.priority || "medium"
priorityOrMedium(priority) == IF priority = "" THEN "medium" ELSE priority

newTask(taskData, r) ==
    [id |-> generateId(now, r),
     text |-> trim(taskData.text),
     completed |-> FALSE,
     createdAt |-> ISO(now),
     dueDate |-> dueDateOrNull(taskData.dueDate),
     priority |-> priorityOrMedium(taskData.priority),
     completedAt |-> Undefined]

\* if (!newTask.text): the empty string is the only falsy text.
isEmptyText(text) == text = <<>>

\* tasks.push(newTask) in place of unshift.
pushInstead(ts, t) == ts \o <<t>>

\* tasks.unshift(newTask)
unshift(ts, t) == <<t>> \o ts

addTask(taskData, r) ==
    LET nt == newTask(taskData, r)
        call == [name |-> "addTask", taskData |-> taskData]
    IN  IF isEmptyText(nt.text)
        THEN /\ NoEffect(call, Throw("Task text cannot be empty"))
             /\ received' = Nothing
        ELSE /\ Len(tasks) < MaxTasks
             /\ SaveNotifyReturn(call, unshift(tasks, nt),
                    [kind |-> "return", val |-> "task", task |-> nt])

\* A toggle that never clears completedAt.
toggledKeepingTimestamp(t) ==
    [t EXCEPT !.completed = ~t.completed,
              !.completedAt = IF ~t.completed THEN ISO(now)
                              ELSE t.completedAt]

\* A toggle that also renews createdAt.
toggledAndRestamped(t) ==
    [t EXCEPT !.completed = ~t.completed,
              !.completedAt = IF ~t.completed THEN ISO(now) ELSE Null,
              !.createdAt = ISO(now)]

\* A toggle that stamps completedAt whichever way it goes.
toggledStampingAlways(t) ==
    [t EXCEPT !.completed = ~t.completed, !.completedAt = ISO(now)]

\* task.completed = !task.completed;
\* task.completedAt = task.completed ? new Date().toISOString() : null;
toggled(t) ==
    [t EXCEPT !.completed = ~t.completed,
              !.completedAt = IF ~t.completed THEN ISO(now) ELSE Null]

\* The call record also keeps the task as it was before the call, and, when
\* the call before this one toggled the same task, the task as it was before
\* that first call (`original`, with inRow set).
toggleTask(taskId) ==
    LET i == findIndex(tasks, taskId)
        call == [name |-> "toggleTask", index |-> i,
                 present |-> Present(tasks, taskId)]
        inRow == op.name = "toggleTask" /\ op.index = i
    IN  IF i # -1
        THEN SaveNotifyReturn(
                 call @@ [before |-> tasks[i + 1], inRow |-> inRow,
                          original |-> IF inRow THEN op.before
                                       ELSE tasks[i + 1]],
                 [tasks EXCEPT ![i + 1] = toggled(tasks[i + 1])],
                 Return("undefined"))
        ELSE /\ NoEffect(call, Return("undefined"))
             /\ received' = Nothing

\* A test that takes every call for a removal.
lengthAlwaysChanged(initialLength, ts) == TRUE

\* tasks.length !== initialLength
lengthChanged(initialLength, ts) == Len(ts) # initialLength

deleteTask(taskId) ==
    LET keep == [k \in 1..Len(tasks) |-> tasks[k].id # taskId]
        kept == pick(tasks, filterIdx(keep, 1))
        call == [name |-> "deleteTask", index |-> findIndex(tasks, taskId),
                 present |-> Present(tasks, taskId)]
    IN  IF lengthChanged(Len(tasks), kept)
        THEN SaveNotifyReturn(call, kept, Return("true"))
        ELSE /\ NoEffect(call, Return("false"))
             /\ received' = Nothing

\* const [draggedTask] = tasks.splice(draggedIndex, 1);
\* tasks.splice(targetIndex, 0, draggedTask);
reordered(ts, draggedIndex, targetIndex) ==
    spliceIn(spliceOut(ts, draggedIndex), targetIndex, ts[draggedIndex + 1])

reorderTasks(draggedTaskId, targetTaskId) ==
    LET draggedIndex == findIndex(tasks, draggedTaskId)
        targetIndex == findIndex(tasks, targetTaskId)
        call == [name |-> "reorderTasks",
                 draggedIndex |-> draggedIndex, targetIndex |-> targetIndex,
                 draggedPresent |-> Present(tasks, draggedTaskId),
                 targetPresent |-> Present(tasks, targetTaskId)]
    IN  IF draggedIndex = -1 \/ targetIndex = -1
        THEN /\ NoEffect(call, Return("false"))
             /\ received' = Nothing
        ELSE SaveNotifyReturn(call,
                 reordered(tasks, draggedIndex, targetIndex), Return("true"))

\* Statistics that take every task for completed.
statsCountingAll(ts) ==
    [total |-> Len(ts), completed |-> Len(ts), pending |-> 0]

\* { total, completed, pending } of an array of tasks.
stats(ts) ==
    LET total == Len(ts)
        completed == Len(filterIdx(isCompleted(ts), 1))
        pending == total - completed
    IN  [total |-> total, completed |-> completed, pending |-> pending]

getStats ==
    /\ NoEffect([name |-> "getStats"],
                [kind |-> "return", val |-> "stats", stats |-> stats(tasks)])
    /\ received' = Nothing

\* saveTasks() called as a public method.
saveTasksCall ==
    /\ storage' = saveTasks(tasks)
    /\ result' = Return("undefined")
    /\ op' = [name |-> "saveTasks", saved |-> saveOutcome, invoked |-> <<>>]
    /\ received' = Nothing
    /\ UNCHANGED <<tasks, observers, now, setItemThrows>>

\* loadTasks(): JSON.parse and notifyObservers() both run inside the try
\* block, so the catch clause (tasks = []) runs when either throws. The call
\* record notes whether this is the first call on a newly loaded page.
loadTasks ==
    LET n == notifyObservers
        call == [name |-> "loadTasks", saved |-> "none",
                 fresh |-> op.name = "newPage"]
    IN  /\ CASE storage.kind = "absent" ->
                 /\ tasks' = tasks
                 /\ op' = call @@ [invoked |-> <<>>]
                 /\ received' = Nothing
              [] storage.kind = "corrupt" ->
                 /\ tasks' = <<>>
                 /\ op' = call @@ [invoked |-> <<>>]
                 /\ received' = Nothing
              [] OTHER ->
                 /\ tasks' = IF n.threw THEN <<>> ELSE parse(storage.value)
                 /\ op' = call @@ [invoked |-> n.invoked]
                 /\ received' = IF n.invoked # <<>> /\ ~n.threw
                                THEN LiveArray ELSE Nothing
        /\ result' = Return("undefined")
        /\ UNCHANGED <<observers, storage, now, setItemThrows>>

\* ------------------------------------------------------------ environment
\* The wall clock advances between calls.
Tick ==
    /\ now < MaxNow
    /\ now' = now + 1
    /\ UNCHANGED <<tasks, observers, storage, result, op, received,
                   setItemThrows>>
    /\ UNCHANGED appVars

\* The page is loaded anew: the script runs again, so the store starts with
\* let tasks = [] and let observers = []; localStorage outlives the page. The
\* record keeps the sequence the old page held and whether the old page's
\* last call wrote it to the slot.
NewPage ==
    /\ tasks' = <<>>
    /\ observers' = <<>>
    /\ result' = Return("undefined")
    /\ op' = [name |-> "newPage", saved |-> "none", invoked |-> <<>>,
              left |-> tasks, written |-> op.saved = "written"]
    /\ received' = Nothing
    /\ UNCHANGED <<storage, now, setItemThrows>>
    /\ UNCHANGED appVars

\* A client writes to the array it received: received.pop().
ConsumerPop ==
    /\ IF received.live
       THEN /\ tasks # <<>>
            /\ tasks' = SubSeq(tasks, 1, Len(tasks) - 1)
            /\ received' = received
       ELSE /\ received.idx # <<>>
            /\ tasks' = tasks
            /\ received' =
                   CopyOf(SubSeq(received.idx, 1, Len(received.idx) - 1))
    /\ op' = [name |-> "consumerPop", saved |-> "none", invoked |-> <<>>]
    /\ UNCHANGED <<observers, storage, now, result, setItemThrows>>
    /\ UNCHANGED appVars

\* A client writes to an element of the array it received:
\* received[i].completed = !received[i].completed.
ConsumerFlip(i) ==
    LET k == IF received.live THEN i ELSE received.idx[i]
    IN  /\ i <= (IF received.live THEN Len(tasks) ELSE Len(received.idx))
        /\ tasks' = [tasks EXCEPT ![k].completed = ~tasks[k].completed]
        /\ op' = [name |-> "consumerFlip", saved |-> "none", invoked |-> <<>>]
        /\ UNCHANGED <<observers, storage, now, result, received,
                       setItemThrows>>
        /\ UNCHANGED appVars

\* ------------------------------------------------------------- the page
\* createTaskElement / createTaskHTML: what a .task-item element shows of a
\* task (data-task-id, the checkbox, the text, the due date, the badge).
createTaskElement(task) ==
    [taskId |-> task.id, completed |-> task.completed, text |-> task.text,
     dueDate |-> task.dueDate, priority |-> task.priority]

\* TaskRenderer.renderTasks: the old elements are removed, one element per
\* task is appended.
renderTasks(ts) == [k \in 1..Len(ts) |-> createTaskElement(ts[k])]

\* A view that is cleared and never filled.
renderNothing(ts, filter) == <<>>

\* EventHandlers.renderCurrentView on a store holding ts:
\* renderTasks(TaskModel.getFilteredTasks(currentFilter), taskList).
renderCurrentView(ts, filter) == renderTasks(pick(ts, filteredIdx(ts, filter)))

\* TaskRenderer.updateStats: element.textContent = number.
updateStats(st) ==
    [totalTasks |-> ToString(st.total),
     completedTasks |-> ToString(st.completed),
     pendingTasks |-> ToString(st.pending)]

\* App.onTasksChange, run by notifyObservers inside a store call: the view
\* and the statistics are drawn from the store as the call leaves it. When
\* the call notified nobody the page stays as it is.
onTasksChange ==
    IF op'.invoked # <<>>
    THEN /\ taskList' = renderCurrentView(tasks', currentFilter)
         /\ statsShown' = updateStats(stats(tasks'))
    ELSE UNCHANGED <<taskList, statsShown>>

\* A task sequence left in localStorage by an earlier visit, at an instant
\* before this one's clock starts.
StoredEarlier ==
    [kind |-> "json",
     value |-> stringify(<< [id |-> generateId(-1, "r1"), text |-> <<"a">>,
                            completed |-> TRUE, createdAt |-> ISO(-1),
                            dueDate |-> "null", priority |-> "medium",
                            completedAt |-> ISO(-1)] >>)]

\* The page before DOMContentLoaded.
InitApp ==
    /\ tasks = <<>>
    /\ observers = <<>>
    /\ storage \in {Absent, Corrupt, StoredEarlier}
    /\ now = 0
    /\ result = Return("undefined")
    /\ op = [name |-> "init", saved |-> "none", invoked |-> <<>>]
    /\ received = Nothing
    /\ setItemThrows \in BOOLEAN
    /\ started = FALSE
    /\ currentFilter = "all"
    /\ dragged = "null"
    /\ taskList = <<>>
    /\ statsShown = "unset"
    /\ timers = <<>>

\* What TaskModel.loadTasks() leaves in tasks when no observer is registered.
tasksLoaded ==
    CASE storage.kind = "absent" -> tasks
      [] storage.kind = "corrupt" -> <<>>
      [] OTHER -> parse(storage.value)

\* A handler that calls no method of the store.
PageOnly(name) ==
    /\ op' = [name |-> name, saved |-> "none", invoked |-> <<>>]
    /\ UNCHANGED <<tasks, observers, storage, now, result, received,
                   setItemThrows, started>>

\* App.init(): loadTasks(), subscribe(onTasksChange), renderCurrentView(),
\* updateStats(getStats()).
AppInit ==
    /\ ~started
    /\ tasks' = tasksLoaded
    /\ observers' = Append(observers, "returns")
    /\ taskList' = renderCurrentView(tasks', currentFilter)
    /\ statsShown' = updateStats(stats(tasks'))
    /\ started' = TRUE
    /\ result' = Return("undefined")
    /\ op' = [name |-> "App.init", saved |-> "none", invoked |-> <<>>]
    /\ received' = Nothing
    /\ UNCHANGED <<storage, now, setItemThrows, currentFilter, dragged, timers>>

\* The data-task-id of the elements on the page: the ids the bound events
\* (bindTaskEvents) can carry.
Shown == {taskList[k].taskId : k \in 1..Len(taskList)}

\* handleAddTask: the exception of addTask is caught and logged.
handleAddTask(taskData, r) ==
    /\ started
    /\ addTask(taskData, r)
    /\ onTasksChange
    /\ UNCHANGED <<started, currentFilter, dragged, timers>>

handleToggleTask(taskId) ==
    /\ started
    /\ toggleTask(taskId)
    /\ onTasksChange
    /\ UNCHANGED <<started, currentFilter, dragged, timers>>

\* handleDeleteTask: the element is on the page, so the removal is set to
\* run 300 ms later.
handleDeleteTask(taskId) ==
    /\ started
    /\ Len(timers) < MaxTimers
    /\ \E k \in 1..Len(taskList) : taskList[k].taskId = taskId
    /\ timers' = Append(timers, taskId)
    /\ PageOnly("handleDeleteTask")
    /\ UNCHANGED <<currentFilter, dragged, taskList, statsShown>>

\* The oldest pending setTimeout callback runs: TaskModel.deleteTask(taskId).
TimerFires ==
    /\ started
    /\ timers # <<>>
    /\ deleteTask(Head(timers))
    /\ timers' = Tail(timers)
    /\ onTasksChange
    /\ UNCHANGED <<started, currentFilter, dragged>>

handleFilterChange(filter) ==
    /\ started
    /\ currentFilter' = filter
    /\ taskList' = renderCurrentView(tasks, filter)
    /\ PageOnly("handleFilterChange")
    /\ UNCHANGED <<dragged, statsShown, timers>>

handleDragStart(taskId) ==
    /\ started
    /\ dragged' = taskId
    /\ PageOnly("handleDragStart")
    /\ UNCHANGED <<currentFilter, taskList, statsShown, timers>>

handleDrop(targetTaskId) ==
    /\ started
    /\ IF dragged # "null" /\ dragged # targetTaskId
       THEN /\ reorderTasks(dragged, targetTaskId)
            /\ onTasksChange
            /\ UNCHANGED <<started, currentFilter, dragged, timers>>
       ELSE /\ PageOnly("handleDrop")
            /\ UNCHANGED <<currentFilter, dragged, taskList, statsShown,
                           timers>>

handleDragEnd ==
    /\ started
    /\ dragged' = "null"
    /\ PageOnly("handleDragEnd")
    /\ UNCHANGED <<currentFilter, taskList, statsShown, timers>>

\* ------------------------------------------------------ claim vocabulary
\* A call of the named method took this step. The clock stands still while
\* a call runs; Tick is the only step that moves it.
Called(name) == now' = now /\ op'.name = name

\* The text holds a character other than white space: it is not empty
\* after trimming.
hasVisibleChar(text) == \E k \in 1..Len(text) : text[k] # " "

\* The methods that change the task sequence.
Mutations == {"addTask", "toggleTask", "deleteTask", "reorderTasks"}

\* The slot holds the serialization of ts: every task with its fields, in
\* order.
Persisted(ts) ==
    /\ storage.kind = "json"
    /\ Len(storage.value) = Len(ts)
    /\ \A k \in 1..Len(ts) :
           /\ storage.value[k].id = ts[k].id
           /\ storage.value[k].text = ts[k].text
           /\ storage.value[k].completed = ts[k].completed
           /\ storage.value[k].createdAt = ts[k].createdAt
           /\ storage.value[k].dueDate = ts[k].dueDate
           /\ storage.value[k].priority = ts[k].priority

\* Every registered observer was called once, in registration order.
AllInvoked == op.invoked = [k \in 1..Len(observers) |-> k]

\* The store under callers that only read what they receive.
Next ==
    \/ \E callback \in Callbacks : subscribe(callback) /\ UNCHANGED appVars
    \/ getAllTasks /\ UNCHANGED appVars
    \/ \E filter \in Filters : getFilteredTasks(filter) /\ UNCHANGED appVars
    \/ \E taskData \in TaskInputs, r \in Rand :
           addTask(taskData, r) /\ UNCHANGED appVars
    \/ \E taskId \in Ids : toggleTask(taskId) /\ UNCHANGED appVars
    \/ \E taskId \in Ids : deleteTask(taskId) /\ UNCHANGED appVars
    \/ \E d \in Ids, t \in Ids : reorderTasks(d, t) /\ UNCHANGED appVars
    \/ getStats /\ UNCHANGED appVars
    \/ saveTasksCall /\ UNCHANGED appVars
    \/ loadTasks /\ UNCHANGED appVars
    \/ Tick

Spec == Init /\ [][Next]_vars

\* ------------------------------------------------------------------ claims
\* C1: after every successful mutation (addTask with visible text,
\* toggleTask, deleteTask or reorderTasks on ids that are present) the slot
\* holds the serialization of the new sequence and every registered
\* observer has been called once. The slot is held to the claim only when
\* localStorage accepted the write.
C1_MutationPersistedAndBroadcast ==
    (op.name \in Mutations /\ op.saved # "none") =>
        /\ AllInvoked
        /\ (op.saved = "written" => Persisted(tasks))

\* C2: addTask with text that is not empty after trimming puts the new task
\* first, with the trimmed text, completed = false and priority "medium"
\* when none was given; the tasks held before follow it in their order; the
\* task the call returns is that first element.
C2_AddTaskInsertsAtFront ==
    [][(Called("addTask") /\ hasVisibleChar(op'.taskData.text)) =>
          /\ tasks' # <<>>
          /\ hasVisibleChar(Head(tasks').text)
          /\ Head(Head(tasks').text) # " "
          /\ Head(tasks').text[Len(Head(tasks').text)] # " "
          /\ Head(tasks').completed = FALSE
          /\ (op'.taskData.priority = "" => Head(tasks').priority = "medium")
          /\ Tail(tasks') = tasks
          /\ (result'.kind = "return" =>
                 result'.val = "task" /\ result'.task = Head(tasks'))]_vars

\* C2 witness: addTask returned a task that now stands before an older one.
C2_Witness ==
    /\ op.name = "addTask"
    /\ result.kind = "return"
    /\ result.val = "task"
    /\ Len(tasks) = 2
    /\ tasks[1] = result.task
    /\ tasks[1].id # tasks[2].id

\* C3: addTask with text that is empty after trimming throws "Task text
\* cannot be empty" and changes nothing: the sequence and the slot are as
\* before, nothing is written and no observer is called.
C3_EmptyTextRejected ==
    [][(Called("addTask") /\ ~hasVisibleChar(op'.taskData.text)) =>
          /\ result' = Throw("Task text cannot be empty")
          /\ tasks' = tasks
          /\ storage' = storage
          /\ op'.saved = "none"
          /\ op'.invoked = <<>>]_vars

\* C3 witness: a white-space-only text was rejected while the store held a
\* task, an observer was registered and localStorage accepted writes.
C3_Witness ==
    /\ op.name = "addTask"
    /\ op.taskData.text = <<" ", " ">>
    /\ result.kind = "throw"
    /\ tasks # <<>>
    /\ observers # <<>>
    /\ ~setItemThrows

\* The task at the 0-based position i of the store.
TaskAt(i) == tasks[i + 1]

\* reorderTasks was called with the same present id as dragged and target.
SelfReorder(call) ==
    /\ call.name = "reorderTasks"
    /\ call.draggedIndex # -1
    /\ call.draggedIndex = call.targetIndex

Without(ts, k) == SubSeq(ts, 1, k - 1) \o SubSeq(ts, k + 1, Len(ts))

\* C5: reorderTasks with both ids present returns true; the result has the
\* same length, the dragged task stands at the index the target had, and the
\* other tasks keep their relative order.
C5_ReorderMovesDraggedToTargetIndex ==
    [][(Called("reorderTasks") /\ op'.draggedPresent
            /\ op'.targetPresent) =>
          /\ result' = Return("true")
          /\ Len(tasks') = Len(tasks)
          /\ tasks'[op'.targetIndex + 1] = tasks[op'.draggedIndex + 1]
          /\ Without(tasks', op'.targetIndex + 1)
                 = Without(tasks, op'.draggedIndex + 1)]_vars

\* completedAt values are the same when both are timestamps of the same
\* instant, or both are no timestamp (null or a missing property).
SameCompletedAt(a, b) ==
    IF a.kind = "iso" \/ b.kind = "iso" THEN a = b ELSE TRUE

\* The last two calls were toggleTask on the same task.
ToggledTwice == op.name = "toggleTask" /\ op.index # -1 /\ op.inRow

\* C6 as claimed: toggleTask twice in a row returns the task to its original
\* completed value and its original completedAt value.
C6_ToggleTwiceRestores ==
    ToggledTwice =>
        /\ TaskAt(op.index).completed = op.original.completed
        /\ SameCompletedAt(TaskAt(op.index).completedAt,
                           op.original.completedAt)

\* C6 as amended: toggleTask twice in a row returns the task to its original
\* completed value; completedAt is null when the task was pending and the
\* time of the second call when it was completed.
C6_ToggleTwiceRestoresCompletedOnly ==
    [][(now' = now /\ ToggledTwice') =>
          /\ tasks'[op'.index + 1].completed = op'.original.completed
          /\ tasks'[op'.index + 1].completedAt =
                 (IF op'.original.completed THEN ISO(now) ELSE Null)]_vars

\* C6 witness: a task completed at instant 0 was toggled twice in a row and
\* is completed again, at a later instant.
C6_Witness ==
    /\ ToggledTwice
    /\ op.original.completed
    /\ op.original.completedAt = ISO(0)
    /\ TaskAt(op.index).completed
    /\ TaskAt(op.index).completedAt # ISO(0)

\* C7: deleteTask on a present id returns true and removes exactly the first
\* task with that id, the rest staying in order; on an absent id it neither
\* persists nor notifies.
C7_DeleteRemovesExactlyOne ==
    [][Called("deleteTask") =>
          IF op'.present
          THEN /\ result' = Return("true")
               /\ Len(tasks') = Len(tasks) - 1
               /\ tasks' = Without(tasks, op'.index + 1)
          ELSE op'.saved = "none" /\ op'.invoked = <<>>]_vars

\* Nothing the store keeps or shows changed in this step.
NothingChanged ==
    /\ tasks' = tasks
    /\ stats(tasks') = stats(tasks)
    /\ storage' = storage
    /\ op'.saved = "none"
    /\ op'.invoked = <<>>

\* C8: toggleTask, deleteTask and reorderTasks with an id that is not in the
\* store do not throw and change nothing: sequence, stats and slot are as
\* before, no observer is called; deleteTask and reorderTasks return false.
C8_MissingIdIsSilentNoOp ==
    [][/\ (Called("toggleTask") /\ ~op'.present) =>
              NothingChanged /\ result' = Return("undefined")
       /\ (Called("deleteTask") /\ ~op'.present) =>
              NothingChanged /\ result' = Return("false")
       /\ (Called("reorderTasks")
              /\ (~op'.draggedPresent \/ ~op'.targetPresent)) =>
              NothingChanged /\ result' = Return("false")]_vars

\* C8 witness: reorderTasks was called with a present dragged id and an
\* absent target id, with an observer registered and a writable slot.
C8_Witness ==
    /\ op.name = "reorderTasks"
    /\ op.draggedPresent
    /\ ~op.targetPresent
    /\ result = Return("false")
    /\ observers # <<>>
    /\ ~setItemThrows

\* The store under clients that also write to the arrays they receive. The
\* clients fill the store, read it, toggle, delete and reload; the clock
\* stands still.
NextClient ==
    \/ \E callback \in Callbacks : subscribe(callback) /\ UNCHANGED appVars
    \/ getAllTasks /\ UNCHANGED appVars
    \/ \E filter \in Filters : getFilteredTasks(filter) /\ UNCHANGED appVars
    \/ \E taskData \in TaskInputs, r \in Rand :
           addTask(taskData, r) /\ UNCHANGED appVars
    \/ \E taskId \in Ids : toggleTask(taskId) /\ UNCHANGED appVars
    \/ \E taskId \in Ids : deleteTask(taskId) /\ UNCHANGED appVars
    \/ loadTasks /\ UNCHANGED appVars
    \/ ConsumerPop
    \/ \E i \in 1..MaxTasks : ConsumerFlip(i)

SpecClient == Init /\ [][NextClient]_vars

\* A client wrote to an array it had received from the store.
ConsumerWrote == now' = now /\ op'.name \in {"consumerPop", "consumerFlip"}

\* C9: what the store hands out (the argument of the observers, the results
\* of getAllTasks and getFilteredTasks) is an independent copy: a client's
\* write to it changes nothing of the store's task sequence.
C9_HandedOutValuesAreCopies ==
    [][ConsumerWrote => tasks' = tasks]_vars

\* The store across page loads: a client fills and saves the store, the page
\* is loaded anew, and the store is read back with loadTasks.
NextReload ==
    \/ \E callback \in Callbacks : subscribe(callback) /\ UNCHANGED appVars
    \/ \E taskData \in TaskInputs, r \in Rand :
           addTask(taskData, r) /\ UNCHANGED appVars
    \/ \E taskId \in Ids : toggleTask(taskId) /\ UNCHANGED appVars
    \/ \E taskId \in Ids : deleteTask(taskId) /\ UNCHANGED appVars
    \/ saveTasksCall /\ UNCHANGED appVars
    \/ loadTasks /\ UNCHANGED appVars
    \/ Tick
    \/ NewPage

SpecReload == Init /\ [][NextReload]_vars

\* C11: when the last call of a page wrote the sequence to the slot
\* (saveTasks(), or the saveTasks() inside a mutation, accepted by
\* localStorage), loadTasks() as the first call of the next page leaves the
\* store with that sequence: same tasks, same fields, same order.
C11_SaveThenLoadRoundTrip ==
    [][(Called("loadTasks") /\ op.name = "newPage" /\ op.written) =>
          /\ tasks' = op.left
          /\ result' = Return("undefined")]_vars

\* C11 witness: a new page read back two tasks, a completed one and one that
\* never had a completedAt.
C11_Witness ==
    /\ op.name = "loadTasks"
    /\ op.fresh
    /\ Len(tasks) = 2
    /\ \E k \in 1..2 : tasks[k].completedAt = Undefined
    /\ \E k \in 1..2 : tasks[k].completed

\* C12: loadTasks returns normally; on corrupt data it leaves the store
\* empty; on valid data it leaves the store with the stored sequence and
\* every registered observer has been called.
C12_LoadTasksResetsOrReplaces ==
    [][Called("loadTasks") =>
          /\ result' = Return("undefined")
          /\ (storage.kind = "corrupt" => tasks' = <<>>)
          /\ (storage.kind = "json" =>
                 tasks' = parse(storage.value) /\ AllInvoked')]_vars

\* C13: every task of the store has a timestamp in completedAt exactly when
\* it is completed.
C13_CompletedAtIffCompleted ==
    \A k \in 1..Len(tasks) :
        (tasks[k].completedAt.kind = "iso") <=> tasks[k].completed

\* C13 witness: a completed task stands before one that was completed and
\* toggled back, after a reorder.
C13_Witness ==
    /\ op.name = "reorderTasks"
    /\ op.saved # "none"
    /\ Len(tasks) = 2
    /\ tasks[1].completed
    /\ tasks[1].completedAt.kind = "iso"
    /\ ~tasks[2].completed
    /\ tasks[2].completedAt = Null

\* C14: no two tasks of the store carry the same id.
C14_IdsUnique ==
    \A i \in 1..Len(tasks), j \in 1..Len(tasks) :
        i # j => tasks[i].id # tasks[j].id

\* C15: when localStorage refuses the write inside a mutation, the call
\* still returns normally, the mutation stays in memory (an added task is
\* there, a toggled task is flipped), every observer is called and the slot
\* keeps its previous value.
C15_SaveFailureIsSwallowed ==
    [][(now' = now /\ op'.name \in Mutations /\ op'.saved = "failed") =>
          /\ result'.kind = "return"
          /\ AllInvoked'
          /\ storage' = storage
          /\ (op'.name = "addTask" => Len(tasks') = Len(tasks) + 1)
          /\ (op'.name = "deleteTask" => Len(tasks') < Len(tasks))
          /\ (op'.name = "toggleTask" =>
                 tasks'[op'.index + 1].completed
                     # tasks[op'.index + 1].completed)]_vars

IsDone(t) == t.completed
IsOpen(t) == ~t.completed

\* The tasks of ts a filter value selects, in the order of ts.
Selected(filter, ts) ==
    CASE filter = "completed" -> SelectSeq(ts, IsDone)
      [] filter = "pending" -> SelectSeq(ts, IsOpen)
      [] OTHER -> ts

\* The elements of a sequence, as a set.
Range(seq) == {seq[k] : k \in 1..Len(seq)}

\* C16: getFilteredTasks returns, without an error, exactly the tasks its
\* filter selects ("completed", "pending", every task for any other value),
\* in the order of the store, and changes nothing; the completed and the
\* pending results are disjoint and together hold every task.
C16_FilterSelectsInOrder ==
    [][Called("getFilteredTasks") =>
          /\ result'.kind = "return"
          /\ result'.items = Selected(op'.filter, tasks)
          /\ tasks' = tasks
          /\ storage' = storage
          /\ op'.saved = "none"
          /\ op'.invoked = <<>>
          /\ LET c == pick(tasks, getFilteredTasksIdx("completed"))
                 p == pick(tasks, getFilteredTasksIdx("pending"))
             IN  /\ Range(c) \cap Range(p) = {}
                 /\ Range(c) \cup Range(p) = Range(tasks)]_vars

\* C16 witness: of two tasks, the first completed, the pending filter
\* returned the second alone.
C16_Witness ==
    /\ op.name = "getFilteredTasks"
    /\ op.filter = "pending"
    /\ Len(tasks) = 2
    /\ tasks[1].completed
    /\ result.items = <<tasks[2]>>

\* C17: getStats returns total = the number of tasks, completed = the number
\* of completed tasks and pending = total - completed, and changes nothing:
\* no write, no notification.
C17_StatsCountTasks ==
    [][Called("getStats") =>
          /\ result'.kind = "return"
          /\ result'.stats.total = Len(tasks)
          /\ result'.stats.completed =
                 Cardinality({k \in 1..Len(tasks) : tasks[k].completed})
          /\ result'.stats.pending
                 = result'.stats.total - result'.stats.completed
          /\ result'.stats.total
                 = result'.stats.completed + result'.stats.pending
          /\ tasks' = tasks
          /\ storage' = storage
          /\ op'.saved = "none"
          /\ op'.invoked = <<>>]_vars

\* C17 witness: getStats returned 2 tasks, 1 completed, 1 pending.
C17_Witness ==
    /\ op.name = "getStats"
    /\ result.stats = [total |-> 2, completed |-> 1, pending |-> 1]

\* The fields of a task that no method may change.
Core(t) ==
    [id |-> t.id, text |-> t.text, createdAt |-> t.createdAt,
     dueDate |-> t.dueDate, priority |-> t.priority]

\* after holds tasks of before, each unchanged, at the positions f gives.
TakenFrom(after, before, f) ==
    \A k \in 1..Len(after) : after[k] = before[f[k]]

\* C18: toggleTask changes only completed and completedAt of the task it
\* finds and leaves the other tasks and the order alone; addTask only puts a
\* task in front; deleteTask only drops tasks; reorderTasks only permutes: no
\* call changes id, text, createdAt, dueDate or priority of a task.
C18_MutationsKeepTaskFields ==
    [][/\ (Called("toggleTask") /\ op'.index # -1) =>
              /\ Len(tasks') = Len(tasks)
              /\ \A k \in 1..Len(tasks) :
                     IF k = op'.index + 1
                     THEN Core(tasks'[k]) = Core(tasks[k])
                     ELSE tasks'[k] = tasks[k]
       /\ Called("addTask") => (tasks' = tasks \/ Tail(tasks') = tasks)
       /\ Called("deleteTask") =>
              \E f \in [1..Len(tasks') -> 1..Len(tasks)] :
                  /\ \A i, j \in 1..Len(tasks') : i < j => f[i] < f[j]
                  /\ TakenFrom(tasks', tasks, f)
       /\ Called("reorderTasks") =>
              /\ Len(tasks') = Len(tasks)
              /\ \E f \in [1..Len(tasks') -> 1..Len(tasks)] :
                     /\ \A i, j \in 1..Len(tasks') : i # j => f[i] # f[j]
                     /\ TakenFrom(tasks', tasks, f)]_vars

\* C18 witness: the second of two tasks was toggled to completed at a later
\* instant than it was created, the first one being pending.
C18_Witness ==
    /\ op.name = "toggleTask"
    /\ op.index = 1
    /\ Len(tasks) = 2
    /\ tasks[2].completed
    /\ tasks[2].completedAt # tasks[2].createdAt
    /\ ~tasks[1].completed

\* The filter values of the page's filter buttons.
FilterButtons == {"all", "pending", "completed"}

\* The page: App.init, then the user's events and the timers in any order;
\* a timer may run at any point after it was set. The clock stands still.
NextApp ==
    \/ AppInit
    \/ \E taskData \in TaskInputs, r \in Rand : handleAddTask(taskData, r)
    \/ \E taskId \in Shown : handleToggleTask(taskId)
    \/ \E taskId \in Shown : handleDeleteTask(taskId)
    \/ TimerFires
    \/ \E filter \in FilterButtons : handleFilterChange(filter)
    \/ \E taskId \in Shown : handleDragStart(taskId)
    \/ \E targetTaskId \in Shown : handleDrop(targetTaskId)
    \/ handleDragEnd

SpecApp == InitApp /\ [][NextApp]_vars

\* C19: once App.init has run, between handlers the page shows the tasks
\* the current filter selects, in the store's order, and the statistics of
\* the store.
C19_ViewShowsStore ==
    started =>
        LET sel == Selected(currentFilter, tasks)
        IN  /\ Len(taskList) = Len(sel)
            /\ \A k \in 1..Len(sel) :
                   /\ taskList[k].taskId = sel[k].id
                   /\ taskList[k].completed = sel[k].completed
                   /\ taskList[k].text = sel[k].text
                   /\ taskList[k].dueDate = sel[k].dueDate
                   /\ taskList[k].priority = sel[k].priority
            /\ statsShown.totalTasks = ToString(Len(tasks))
            /\ statsShown.completedTasks =
                   ToString(Cardinality({k \in 1..Len(tasks) :
                                            tasks[k].completed}))
            /\ statsShown.pendingTasks =
                   ToString(Cardinality({k \in 1..Len(tasks) :
                                            ~tasks[k].completed}))

\* C19 witness: App.init has just run and the page shows the task that was
\* loaded from localStorage before the observer was subscribed.
C19_Witness ==
    /\ op.name = "App.init"
    /\ started
    /\ Len(tasks) = 1
    /\ Len(taskList) = 1
    /\ taskList[1].taskId = tasks[1].id

\* C20: a delete timer removes exactly the task that was clicked, once: when
\* it fires for an id in the store, that one task goes, the others stay in
\* order and the observer is notified once; when the task is already gone
\* it changes nothing, notifies nobody and raises no error.
C20_TimerRemovesOnlyClickedTask ==
    [][Called("deleteTask") =>
          IF op'.present
          THEN /\ tasks' = Without(tasks, op'.index + 1)
               /\ result' = Return("true")
               /\ op'.invoked = <<1>>
          ELSE NothingChanged /\ result' = Return("false")]_vars

\* C10: whenever a notification starts, every registered observer is called,
\* in registration order, and the call that caused it completes.
C10_ObserversIsolated ==
    op.invoked # <<>> => AllInvoked /\ result.kind = "return"

====
